---- MODULE Spec2Model ----
(***************************************************************************)
(* Model of the EPL match-result extraction pipeline:                      *)
(*   src/EPL/epl_match_result.py    (MatchInfo, TeamInfo, Statistic,       *)
(*                                   TeamStat, MatchStatistic)             *)
(*   src/EPL/epl_matchweek_result.py (manipulate_stats, main)              *)
(*                                                                         *)
(* JSON objects are functions with a domain of strings (a key is present   *)
(* iff it is in the DOMAIN), JSON arrays are sequences.  A Python          *)
(* exception is a record [type, arg]; NoExc means the call returned.       *)
(***************************************************************************)
EXTENDS Integers, Sequences, FiniteSets, TLC

VARIABLES
    op,          \* the call that produced the current state
    fixture,     \* the document last given to MatchStatistic(...)
    record,      \* the MatchStatistic object (NoRecord before construction)
    data,        \* the document last given to get_stats
    exc,         \* the exception the last call raised, NoExc if it returned
    used,        \* number of statistic entries supplied so far
    again,       \* the last get_stats call repeated the previous document
    ret,         \* the value returned by the last manipulate_stats call
    ref,         \* the referee string of the current match
    world,       \* main: what the remote site serves for each fixture
    match_id_list, \* main: the fixture list
    i,           \* main: index of the match being processed
    pc,          \* main: position in the loop body
    match_info,  \* main: the decoded statistics document of the current match
    sink,        \* main: the rows written to the csv file so far
    trace        \* main: the steps completed so far, <<match index, step>>

vars == <<op, fixture, record, data, exc, used, again, ret, ref,
          world, match_id_list, i, pc, match_info, sink, trace>>

----------------------------------------------------------------------------
(* Bounds of the model *)

MaxTeams == 3        \* longest team list of a fixture-detail document
MaxDefects == 2      \* most keys removed from one fixture-detail document
MaxEntries == 2      \* most statistic entries supplied to one object, over all calls
MaxMatches == 2      \* longest fixture list of a match week

----------------------------------------------------------------------------
(* Python values *)

NoExc == [type |-> "None", arg |-> ""]
KeyError(k) == [type |-> "KeyError", arg |-> k]
IndexError == [type |-> "IndexError", arg |-> "list index out of range"]
ValueError == [type |-> "ValueError", arg |-> "time data does not match format"]
URLError == [type |-> "URLError", arg |-> "urlopen"]

NoRecord == [none |-> TRUE]
IsRecord(r) == "team1" \in DOMAIN r

Digit == <<"0", "1", "2", "3", "4", "5", "6", "7", "8", "9">>

\* str(n) for a non-negative integer
RECURSIVE Str(_)
Str(n) == IF n < 10 THEN Digit[n + 1] ELSE Str(n \div 10) \o Digit[(n % 10) + 1]

\* zero-padded two-digit field of strftime (%d, %m)
Pad2(n) == IF n < 10 THEN "0" \o Str(n) ELSE Str(n)

\* obj without key k
Drop(obj, k) == [q \in DOMAIN obj \ {k} |-> obj[q]]

\* a chain of dictionary lookups obj[path[1]][path[2]]... succeeds
RECURSIVE HasPath(_, _)
HasPath(obj, path) ==
    IF path = <<>> THEN TRUE
    ELSE /\ Head(path) \in DOMAIN obj
         /\ HasPath(obj[Head(path)], Tail(path))

\* index of the first lookup chain of reads that raises KeyError, 0 if none
RECURSIVE FirstMissing(_, _, _)
FirstMissing(obj, reads, n) ==
    IF n > Len(reads) THEN 0
    ELSE IF HasPath(obj, reads[n]) THEN FirstMissing(obj, reads, n + 1)
    ELSE n

Last(s) == s[Len(s)]

----------------------------------------------------------------------------
(* epl_match_result.py *)

Weekdays == {"Mon", "Tue", "Wed", "Thu", "Fri", "Sat", "Sun"}
Months == <<"Jan", "Feb", "Mar", "Apr", "May", "Jun",
            "Jul", "Aug", "Sep", "Oct", "Nov", "Dec">>
MonthNum(b) == CHOOSE m \in 1..12 : Months[m] = b

\* A kickoff label is held as its fields: "<a> <d> <b> <Y>, <H>:<M><tail>".
\* label[:-4] drops the tail when the tail is four characters long.
\* strptime(label[:-4], "%a %d %b %Y, %H:%M") accepts the rest iff every
\* field is in range.
Parsable(label) ==
    /\ Len(label.tail) = 4
    /\ label.a \in Weekdays
    /\ label.d \in 1..31
    /\ label.b \in {Months[m] : m \in 1..12}
    /\ label.H \in 0..23
    /\ label.M \in 0..59

\* .strftime("%d/%m/%Y")
Strftime(label) ==
    Pad2(label.d) \o "/" \o Pad2(MonthNum(label.b)) \o "/" \o Str(label.Y)

\* The dictionary lookups of MatchInfo.__init__ before the kickoff is parsed,
\* in the order the code makes them.
MatchInfoReads ==
    << <<"gameweek">>,
       <<"gameweek", "id">>,
       <<"id">>,
       <<"gameweek", "compSeason", "label">>,
       <<"gameweek", "gameweek">>,
       <<"gameweek", "compSeason", "competition", "description">>,
       <<"kickoff", "label">> >>

\* The lookups after it: Ground(data["ground"]).
GroundReads ==
    << <<"ground">>, <<"ground", "name">>, <<"ground", "city">> >>

\* the key a failing lookup chain raises KeyError for
RECURSIVE MissingKey(_, _)
MissingKey(obj, path) ==
    IF Head(path) \notin DOMAIN obj THEN Head(path)
    ELSE MissingKey(obj[Head(path)], Tail(path))

\* data.get("attendance", 0)
Attendance(d) == IF "attendance" \in DOMAIN d THEN d["attendance"] ELSE 0

\* MatchInfo.__init__(data): [exc, val]
MatchInfo(d) ==
    LET m1 == FirstMissing(d, MatchInfoReads, 1)
        m2 == FirstMissing(d, GroundReads, 1)
    IN  IF m1 # 0 THEN [exc |-> KeyError(MissingKey(d, MatchInfoReads[m1]))]
        ELSE IF ~Parsable(d["kickoff"]["label"]) THEN [exc |-> ValueError]
        ELSE IF m2 # 0 THEN [exc |-> KeyError(MissingKey(d, GroundReads[m2]))]
        ELSE [exc |-> NoExc,
              val |-> [game_week_id |-> d["gameweek"]["id"],
                       match_id |-> d["id"],
                       season |-> d["gameweek"]["compSeason"]["label"],
                       round |-> d["gameweek"]["gameweek"],
                       league |-> d["gameweek"]["compSeason"]["competition"]["description"],
                       kickoff |-> Strftime(d["kickoff"]["label"]),
                       ground_name |-> [name |-> d["ground"]["name"],
                                        city |-> d["ground"]["city"]],
                       attendance |-> Attendance(d)]]

\* Statistic.__init__() with its defaults
Statistic ==
    [ftg |-> 0, htg |-> 0, sh |-> 0, sot |-> 0, co |-> 0, fo |-> 0, yc |-> 0, rc |-> 0]

\* the lookups of TeamInfo.__init__(data)
TeamInfoReads ==
    << <<"team">>, <<"team", "id">>, <<"team", "name">>, <<"team", "shortName">> >>

\* TeamStat.__init__(data): [exc, val]
TeamStat(d) ==
    LET m == FirstMissing(d, TeamInfoReads, 1)
    IN  IF m # 0 THEN [exc |-> KeyError(MissingKey(d, TeamInfoReads[m]))]
        ELSE [exc |-> NoExc,
              val |-> [info |-> [id |-> d["team"]["id"],
                                 name |-> d["team"]["name"],
                                 short_name |-> d["team"]["shortName"]],
                       stats |-> Statistic]]

\* as HasIndex, for a list that must hold exactly two entries
HasIndexExact(list, k) == Len(list) = 2 /\ k <= Len(list)

\* list[k - 1] does not raise IndexError
HasIndex(list, k) == k <= Len(list)

\* MatchStatistic.__init__(data): [exc, val]; no object exists when it raises
MatchStatistic(d) ==
    IF "entity" \notin DOMAIN d THEN [exc |-> KeyError("entity")]
    ELSE
    LET e == d["entity"]
        m == MatchInfo(e)
    IN  IF m.exc # NoExc THEN [exc |-> m.exc]
        ELSE IF "teams" \notin DOMAIN e THEN [exc |-> KeyError("teams")]
        ELSE IF ~HasIndex(e["teams"], 1) THEN [exc |-> IndexError]
        ELSE
        LET t1 == TeamStat(e["teams"][1])
        IN  IF t1.exc # NoExc THEN [exc |-> t1.exc]
            ELSE IF ~HasIndex(e["teams"], 2) THEN [exc |-> IndexError]
            ELSE
            LET t2 == TeamStat(e["teams"][2])
            IN  IF t2.exc # NoExc THEN [exc |-> t2.exc]
                ELSE IF "score" \notin DOMAIN e["teams"][1] THEN [exc |-> KeyError("score")]
                ELSE IF "score" \notin DOMAIN e["teams"][2] THEN [exc |-> KeyError("score")]
                ELSE [exc |-> NoExc,
                      val |-> [match |-> m.val,
                               team1 |-> [t1.val EXCEPT !.stats.ftg = e["teams"][1]["score"]],
                               team2 |-> [t2.val EXCEPT !.stats.ftg = e["teams"][2]["score"]]]]

\* as Team1Assign, the last branch an else that takes every other name for a red card
Team1AssignElse(stats, stat) ==
    CASE stat["name"] = "first_half_goals" -> [stats EXCEPT !.htg = stat["value"]]
      [] stat["name"] = "total_scoring_att" -> [stats EXCEPT !.sh = stat["value"]]
      [] stat["name"] = "ontarget_scoring_att" -> [stats EXCEPT !.sot = stat["value"]]
      [] stat["name"] = "total_corners_intobox" -> [stats EXCEPT !.co = stat["value"]]
      [] stat["name"] = "fk_foul_lost" -> [stats EXCEPT !.fo = stat["value"]]
      [] stat["name"] = "total_yel_card" -> [stats EXCEPT !.yc = stat["value"]]
      [] stat["name"] = "total_red_card" -> [stats EXCEPT !.rc = stat["value"]]
      [] OTHER -> [stats EXCEPT !.rc = stat["value"]]

\* as Team1Assign, corners added to the field instead of replacing it
Team1AssignAccumulate(stats, stat) ==
    CASE stat["name"] = "first_half_goals" -> [stats EXCEPT !.htg = stat["value"]]
      [] stat["name"] = "total_scoring_att" -> [stats EXCEPT !.sh = stat["value"]]
      [] stat["name"] = "ontarget_scoring_att" -> [stats EXCEPT !.sot = stat["value"]]
      [] stat["name"] = "total_corners_intobox" -> [stats EXCEPT !.co = @ + stat["value"]]
      [] stat["name"] = "fk_foul_lost" -> [stats EXCEPT !.fo = stat["value"]]
      [] stat["name"] = "total_yel_card" -> [stats EXCEPT !.yc = stat["value"]]
      [] stat["name"] = "total_red_card" -> [stats EXCEPT !.rc = stat["value"]]
      [] OTHER -> stats

\* first loop of get_stats (lines 209-223): one iteration for team1
Team1Assign(stats, stat) ==
    CASE stat["name"] = "first_half_goals" -> [stats EXCEPT !.htg = stat["value"]]
      [] stat["name"] = "total_scoring_att" -> [stats EXCEPT !.sh = stat["value"]]
      [] stat["name"] = "ontarget_scoring_att" -> [stats EXCEPT !.sot = stat["value"]]
      [] stat["name"] = "total_corners_intobox" -> [stats EXCEPT !.co = stat["value"]]
      [] stat["name"] = "fk_foul_lost" -> [stats EXCEPT !.fo = stat["value"]]
      [] stat["name"] = "total_yel_card" -> [stats EXCEPT !.yc = stat["value"]]
      [] stat["name"] = "total_red_card" -> [stats EXCEPT !.rc = stat["value"]]
      [] OTHER -> stats

\* as Team2Assign, first_half_goals written to ftg
Team2AssignFtg(stats, stat) ==
    CASE stat["name"] = "first_half_goals" -> [stats EXCEPT !.ftg = stat["value"]]
      [] stat["name"] = "total_scoring_att" -> [stats EXCEPT !.sh = stat["value"]]
      [] stat["name"] = "ontarget_scoring_att" -> [stats EXCEPT !.sot = stat["value"]]
      [] stat["name"] = "total_corners_intobox" -> [stats EXCEPT !.co = stat["value"]]
      [] stat["name"] = "fk_foul_lost" -> [stats EXCEPT !.fo = stat["value"]]
      [] stat["name"] = "total_yel_card" -> [stats EXCEPT !.yc = stat["value"]]
      [] stat["name"] = "total_red_card" -> [stats EXCEPT !.rc = stat["value"]]
      [] OTHER -> stats

\* second loop of get_stats (lines 225-239): one iteration for team2
Team2Assign(stats, stat) ==
    CASE stat["name"] = "first_half_goals" -> [stats EXCEPT !.htg = stat["value"]]
      [] stat["name"] = "total_scoring_att" -> [stats EXCEPT !.sh = stat["value"]]
      [] stat["name"] = "ontarget_scoring_att" -> [stats EXCEPT !.sot = stat["value"]]
      [] stat["name"] = "total_corners_intobox" -> [stats EXCEPT !.co = stat["value"]]
      [] stat["name"] = "fk_foul_lost" -> [stats EXCEPT !.fo = stat["value"]]
      [] stat["name"] = "total_yel_card" -> [stats EXCEPT !.yc = stat["value"]]
      [] stat["name"] = "total_red_card" -> [stats EXCEPT !.rc = stat["value"]]
      [] OTHER -> stats

\* for stat in M: ... over team1's entries, in list order
RECURSIVE Team1Loop(_, _)
Team1Loop(stats, M) ==
    IF M = <<>> THEN stats
    ELSE Team1Loop(Team1Assign(stats, Head(M)), Tail(M))

\* as Team2Loop, an entry skipped when a later one is applied first: the first
\* occurrence of a code wins
RECURSIVE Team2LoopFirstWins(_, _)
Team2LoopFirstWins(stats, M) ==
    IF M = <<>> THEN stats
    ELSE Team2Assign(Team2LoopFirstWins(stats, Tail(M)), Head(M))

\* for stat in M: ... over team2's entries, in list order
RECURSIVE Team2Loop(_, _)
Team2Loop(stats, M) ==
    IF M = <<>> THEN stats
    ELSE Team2Loop(Team2Assign(stats, Head(M)), Tail(M))

\* as get_stats, a missing team id read as an empty entry list (dict.get)
get_statsDefault(self, d) ==
    IF "data" \notin DOMAIN d THEN [exc |-> KeyError("data"), self |-> self]
    ELSE
    LET k1 == Str(self.team1.info.id)
        k2 == Str(self.team2.info.id)
        M1 == IF k1 \in DOMAIN d["data"] THEN d["data"][k1]["M"] ELSE <<>>
        M2 == IF k2 \in DOMAIN d["data"] THEN d["data"][k2]["M"] ELSE <<>>
    IN  [exc |-> NoExc,
         self |-> [self EXCEPT !.team1.stats = Team1Loop(@, M1),
                               !.team2.stats = Team2Loop(@, M2)]]

\* as get_stats, both entry lists looked up before the first loop
get_statsAtomic(self, d) ==
    IF "data" \notin DOMAIN d THEN [exc |-> KeyError("data"), self |-> self]
    ELSE
    LET k1 == Str(self.team1.info.id)
        k2 == Str(self.team2.info.id)
    IN  IF ~HasPath(d["data"], <<k1, "M">>)
        THEN [exc |-> KeyError(MissingKey(d["data"], <<k1, "M">>)), self |-> self]
        ELSE IF ~HasPath(d["data"], <<k2, "M">>)
        THEN [exc |-> KeyError(MissingKey(d["data"], <<k2, "M">>)), self |-> self]
        ELSE [exc |-> NoExc,
              self |-> [self EXCEPT !.team1.stats = Team1Loop(@, d["data"][k1]["M"]),
                                    !.team2.stats = Team2Loop(@, d["data"][k2]["M"])]]

\* MatchStatistic.get_stats(self, data): [exc, self]; self is mutated in
\* place, so the assignments made before an exception stay.
get_stats(self, d) ==
    IF "data" \notin DOMAIN d THEN [exc |-> KeyError("data"), self |-> self]
    ELSE
    LET k1 == Str(self.team1.info.id)
        k2 == Str(self.team2.info.id)
    IN  IF ~HasPath(d["data"], <<k1, "M">>)
        THEN [exc |-> KeyError(MissingKey(d["data"], <<k1, "M">>)), self |-> self]
        ELSE
        LET s1 == [self EXCEPT !.team1.stats = Team1Loop(@, d["data"][k1]["M"])]
        IN  IF ~HasPath(d["data"], <<k2, "M">>)
            THEN [exc |-> KeyError(MissingKey(d["data"], <<k2, "M">>)), self |-> s1]
            ELSE [exc |-> NoExc,
                  self |-> [s1 EXCEPT !.team2.stats = Team2Loop(@, d["data"][k2]["M"])]]

----------------------------------------------------------------------------
(* epl_matchweek_result.py *)

\* as manipulate_stats, shots and shots on target listed team by team
manipulate_statsSwapped(d, r) ==
    << d.match.season,
       d.match.kickoff,
       d.team1.info.short_name,
       d.team2.info.short_name,
       d.team1.stats.ftg,
       d.team2.stats.ftg,
       d.team1.stats.htg,
       d.team2.stats.htg,
       r,
       d.team1.stats.sh,
       d.team1.stats.sot,
       d.team2.stats.sh,
       d.team2.stats.sot,
       d.team1.stats.co,
       d.team2.stats.co,
       d.team1.stats.fo,
       d.team2.stats.fo,
       d.team1.stats.yc,
       d.team2.stats.yc,
       d.team1.stats.rc,
       d.team2.stats.rc >>

\* manipulate_stats(data, ref)
manipulate_stats(d, r) ==
    << d.match.season,
       d.match.kickoff,
       d.team1.info.short_name,
       d.team2.info.short_name,
       d.team1.stats.ftg,
       d.team2.stats.ftg,
       d.team1.stats.htg,
       d.team2.stats.htg,
       r,
       d.team1.stats.sh,
       d.team2.stats.sh,
       d.team1.stats.sot,
       d.team2.stats.sot,
       d.team1.stats.co,
       d.team2.stats.co,
       d.team1.stats.fo,
       d.team2.stats.fo,
       d.team1.stats.yc,
       d.team2.stats.yc,
       d.team1.stats.rc,
       d.team2.stats.rc >>

\* the csv header of main
fields ==
    << "Season", "Date", "HomeTeam", "AwayTeam", "FTHG", "FTAG", "HTHG", "HTAG",
       "Referee", "HS", "AS", "HST", "AST", "HC", "AC", "HF", "AF", "HY", "AY",
       "HR", "AR" >>

----------------------------------------------------------------------------
(* Input documents *)

TeamIds == <<1, 12, 3, 4>>
TeamKeys == <<"1", "12", "3", "4">>
TeamNames == <<"Arsenal", "Chelsea", "Everton", "Fulham">>
ShortNames == <<"ARS", "CHE", "EVE", "FUL">>

GoodLabel == [a |-> "Sat", d |-> 14, b |-> "Aug", Y |-> 2022, H |-> 15, M |-> 0, tail |-> " BST"]
BadLabel == [a |-> "TBC", d |-> 0, b |-> "", Y |-> 0, H |-> 0, M |-> 0, tail |-> ""]

\* the team list entry at position p
TeamEntry(p, score) ==
    [team |-> [id |-> TeamIds[p], name |-> TeamNames[p], shortName |-> ShortNames[p]],
     score |-> score]

\* a complete fixture-detail object
Entity(teams, label) ==
    [gameweek |-> [id |-> 18390, gameweek |-> 1,
                   compSeason |-> [label |-> "2022/23",
                                   competition |-> [description |-> "Premier League"]]],
     id |-> 74911,
     kickoff |-> [label |-> label],
     ground |-> [name |-> "Emirates Stadium", city |-> "London"],
     attendance |-> 60000,
     teams |-> teams]

\* obj with the key at the end of path removed (obj itself if the path is not there)
RECURSIVE DropPath(_, _)
DropPath(obj, path) ==
    IF Head(path) \notin DOMAIN obj THEN obj
    ELSE IF Len(path) = 1 THEN Drop(obj, Head(path))
    ELSE [obj EXCEPT ![Head(path)] = DropPath(@, Tail(path))]

RECURSIVE DropAll(_, _)
DropAll(obj, paths) ==
    IF paths = {} THEN obj
    ELSE LET q == CHOOSE q \in paths : \A r \in paths : Len(r) <= Len(q)
         IN  DropAll(DropPath(obj, q), paths \ {q})

Defects ==
    { <<"entity">>,
      <<"entity", "gameweek">>,
      <<"entity", "gameweek", "id">>,
      <<"entity", "gameweek", "compSeason">>,
      <<"entity", "id">>,
      <<"entity", "kickoff">>,
      <<"entity", "kickoff", "label">>,
      <<"entity", "ground">>,
      <<"entity", "ground", "city">>,
      <<"entity", "attendance">>,
      <<"entity", "teams">> }

EntryDefects == { {}, {<<"score">>}, {<<"team", "shortName">>} }

\* team lists of length n; the entry at position p scores p + 1
TeamLists(n) ==
    { [p \in 1..n |-> DropAll(TeamEntry(p, p + 1), f[p])] : f \in [1..n -> EntryDefects] }

\* the documents given to the constructor when it is examined on its own
BuildDocs ==
    { DropAll([entity |-> Entity(teams, label)], ds) :
        teams \in UNION { TeamLists(n) : n \in 0..MaxTeams },
        label \in {GoodLabel, BadLabel},
        ds \in { x \in SUBSET Defects : Cardinality(x) <= MaxDefects } }

\* valid documents, given to the constructor before get_stats is examined
ApiFixtures ==
    { [entity |-> Entity(<<TeamEntry(1, 2), TeamEntry(2, 1)>>, GoodLabel)],
      [entity |-> Drop(Entity(<<TeamEntry(1, 0), TeamEntry(2, 3), TeamEntry(3, 1)>>, GoodLabel),
                       "attendance")] }

StatCodes ==
    { "first_half_goals", "total_scoring_att", "ontarget_scoring_att",
      "total_corners_intobox", "fk_foul_lost", "total_yel_card", "total_red_card" }

\* names that are no table code
OtherNames == { "possession_percentage" }

\* get_stats copies a value and never inspects it: the default 0 and one
\* other value tell every assignment apart
Values == {0, 1}

Entries == [name : StatCodes \cup OtherNames, value : Values]

EntryLists(n) == [1..n -> Entries]

\* statistics documents for the teams at positions 1 and 2 holding at most
\* n entries in all; a team is either absent or has a list
StatDocsUpTo(n) ==
    { [data |-> (IF p1 THEN TeamKeys[1] :> [M |-> l1] ELSE <<>>)
                @@ (IF p2 THEN TeamKeys[2] :> [M |-> l2] ELSE <<>>)] :
        <<p1, l1, p2, l2>> \in
          UNION { UNION { ({TRUE} \X EntryLists(n1) \X {TRUE} \X EntryLists(n2))
                          \cup (IF n1 = 0 THEN {FALSE} \X {<<>>} \X {TRUE} \X EntryLists(n2) ELSE {})
                          \cup (IF n2 = 0 THEN {TRUE} \X EntryLists(n1) \X {FALSE} \X {<<>>} ELSE {})
                          \cup (IF n1 = 0 /\ n2 = 0 THEN {<<FALSE, <<>>, FALSE, <<>> >>} ELSE {})
                          : n2 \in 0..(n - n1) } : n1 \in 0..n } }
    \cup { <<>> }

\* StatDocsUpTo for every number of entries still to be supplied
StatDocs == [n \in 0..MaxEntries |-> StatDocsUpTo(n)]

\* the number of statistic entries in a statistics document
Size(d) ==
    IF "data" \notin DOMAIN d THEN 0
    ELSE LET m == d["data"]
             n(k) == IF k \in DOMAIN m THEN Len(m[k]["M"]) ELSE 0
         IN  n(TeamKeys[1]) + n(TeamKeys[2])

Referees == { "M. Oliver", "A. Taylor" }

----------------------------------------------------------------------------
(* The object interface: construction, get_stats, manipulate_stats *)

ObjInit ==
    /\ op = "none"
    /\ fixture = <<>>
    /\ record = NoRecord
    /\ data = <<>>
    /\ exc = NoExc
    /\ used = 0
    /\ again = FALSE
    /\ ret = <<>>
    /\ ref = ""
    /\ world = <<>>
    /\ match_id_list = <<>>
    /\ i = 0
    /\ pc = "idle"
    /\ match_info = <<>>
    /\ sink = <<>>
    /\ trace = <<>>

MainUnchanged == UNCHANGED <<world, match_id_list, i, pc, match_info, sink, trace>>

\* match_stats = MatchStatistic(d)
Construct(d) ==
    /\ op = "none"
    /\ LET r == MatchStatistic(d)
       IN  /\ exc' = r.exc
           /\ record' = IF r.exc = NoExc THEN r.val ELSE NoRecord
    /\ fixture' = d
    /\ op' = "init"
    /\ UNCHANGED <<data, used, again, ret, ref>>
    /\ MainUnchanged

\* match_stats.get_stats(d) with a fresh document; the object is dropped once
\* its row was taken (line 218), and a repeated call ends the sequence of calls
GetStats(d) ==
    /\ IsRecord(record)
    /\ op \in {"init", "get_stats"}
    /\ ~again
    /\ LET r == get_stats(record, d)
       IN  /\ exc' = r.exc
           /\ record' = r.self
    /\ data' = d
    /\ op' = "get_stats"
    /\ used' = used + Size(d)
    /\ again' = FALSE
    /\ ret' = <<>>
    /\ ref' = ""
    /\ UNCHANGED fixture
    /\ MainUnchanged

\* match_stats.get_stats(d) once more with the document of the call before
GetStatsAgain ==
    /\ op = "get_stats"
    /\ ~again
    /\ LET r == get_stats(record, data)
       IN  /\ exc' = r.exc
           /\ record' = r.self
    /\ again' = TRUE
    /\ UNCHANGED <<op, fixture, data, used, ret, ref>>
    /\ MainUnchanged

\* manipulate_stats(match_stats, r)
ManipulateStats(r) ==
    /\ IsRecord(record)
    /\ op # "manipulate_stats"
    /\ ret' = manipulate_stats(record, r)
    /\ ref' = r
    /\ op' = "manipulate_stats"
    /\ exc' = NoExc
    /\ UNCHANGED <<fixture, record, data, used, again>>
    /\ MainUnchanged

BuildNext == op = "none" /\ \E d \in BuildDocs : Construct(d)

SpecBuild == ObjInit /\ [][BuildNext]_vars

ApiNew == op = "none" /\ \E d \in ApiFixtures : Construct(d)

ApiGetStats == \E d \in StatDocs[MaxEntries - used] : GetStats(d)

ApiManipulateStats == \E r \in Referees : ManipulateStats(r)

\* construction and get_stats calls
StatsNext ==
    \/ ApiNew
    \/ ApiGetStats

SpecStats == ObjInit /\ [][StatsNext]_vars

\* construction, get_stats calls, and get_stats calls that repeat a document
TwiceNext ==
    \/ ApiNew
    \/ ApiGetStats
    \/ GetStatsAgain

SpecTwice == ObjInit /\ [][TwiceNext]_vars

\* construction, get_stats calls and manipulate_stats calls
RowNext ==
    \/ ApiNew
    \/ ApiGetStats
    \/ ApiManipulateStats

SpecRow == ObjInit /\ [][RowNext]_vars

----------------------------------------------------------------------------
(* main: one run over the fixture list of a match week *)

\* the texts of the mc-summary__info elements of a match page, each split at ": "
PageInfos ==
    { <<>>,
      << <<"Kick Off", "15:00">>, <<"Att", "60,000">>, <<"Ref", "M. Oliver">> >>,
      << <<"Ref", "A. Taylor">> >> }

Stat(n, v) == [name |-> n, value |-> v]

\* the statistics documents the site serves: entity and data in one document
MainDocs ==
    { \* the teams at positions 1 and 2, the second without entries
      [entity |-> Entity(<<TeamEntry(1, 2), TeamEntry(2, 1)>>, GoodLabel),
       data |-> TeamKeys[1] :> [M |-> <<Stat("total_scoring_att", 10)>>]
                @@ TeamKeys[2] :> [M |-> <<>>]],
      \* the teams at positions 3 and 4, the first without entries
      [entity |-> Entity(<<TeamEntry(3, 0), TeamEntry(4, 4)>>, GoodLabel),
       data |-> TeamKeys[3] :> [M |-> <<>>]
                @@ TeamKeys[4] :> [M |-> <<Stat("first_half_goals", 3),
                                           Stat("total_yel_card", 5)>>]],
      \* one team only: the constructor raises
      [entity |-> Entity(<<TeamEntry(1, 2)>>, GoodLabel),
       data |-> TeamKeys[1] :> [M |-> <<>>]],
      \* no statistics for the second team: get_stats raises
      [entity |-> Entity(<<TeamEntry(1, 1), TeamEntry(2, 1)>>, GoodLabel),
       data |-> TeamKeys[1] :> [M |-> <<Stat("fk_foul_lost", 7)>>]] }

\* what the site serves for one fixture
Served ==
    [page_ok : BOOLEAN, infos : PageInfos, stats_ok : BOOLEAN, doc : MainDocs]

Worlds ==
    { [list_ok |-> TRUE, matches |-> m] :
        m \in UNION { [1..n -> Served] : n \in 0..MaxMatches } }
    \cup { [list_ok |-> FALSE, matches |-> <<>>] }

Init ==
    /\ op = "none"
    /\ fixture = <<>>
    /\ record = NoRecord
    /\ data = <<>>
    /\ exc = NoExc
    /\ used = 0
    /\ again = FALSE
    /\ ret = <<>>
    /\ ref = ""
    /\ world \in Worlds
    /\ match_id_list = <<>>
    /\ i = 0
    /\ pc = "start"
    /\ match_info = <<>>
    /\ sink = <<>>
    /\ trace = <<>>

ObjUnchanged == UNCHANGED <<op, fixture, data, used, again>>

\* an unhandled exception leaves main; the with blocks close the file
Abort(e) ==
    /\ exc' = e
    /\ pc' = "aborted"

Done(step) == trace' = Append(trace, <<i, step>>)

\* lines 138-179: fetch the fixture list, open the file, write the header
Start ==
    /\ pc = "start"
    /\ IF ~world.list_ok
       THEN /\ Abort(URLError)
            /\ UNCHANGED <<match_id_list, sink>>
       ELSE /\ match_id_list' = [k \in 1..Len(world.matches) |-> k]
            /\ sink' = <<fields>>
            /\ pc' = "for"
            /\ UNCHANGED exc
    /\ UNCHANGED <<record, ret, ref, world, i, match_info, trace>>
    /\ ObjUnchanged

\* line 183: for i in match_id_list
ForNext ==
    /\ pc = "for"
    /\ IF i < Len(match_id_list)
       THEN i' = i + 1 /\ pc' = "fetch_page"
       ELSE i' = i /\ pc' = "done"
    /\ UNCHANGED <<record, exc, ret, ref, world, match_id_list, match_info, sink, trace>>
    /\ ObjUnchanged

\* lines 184-192: fetch the match page and take the referee from its last info text
FetchPage ==
    /\ pc = "fetch_page"
    /\ LET s == world.matches[match_id_list[i]]
       IN  IF ~s.page_ok
           THEN Abort(URLError) /\ UNCHANGED <<ref, trace>>
           ELSE IF s.infos = <<>>
           THEN Abort(IndexError) /\ UNCHANGED <<ref, trace>>
           ELSE /\ ref' = Last(Last(s.infos))
                /\ pc' = "fetch_stats"
                /\ Done("fetch_page")
                /\ UNCHANGED exc
    /\ UNCHANGED <<record, ret, world, match_id_list, i, match_info, sink>>
    /\ ObjUnchanged

\* lines 194-213: fetch and decode the statistics document
FetchStats ==
    /\ pc = "fetch_stats"
    /\ LET s == world.matches[match_id_list[i]]
       IN  IF ~s.stats_ok
           THEN Abort(URLError) /\ UNCHANGED <<match_info, trace>>
           ELSE /\ match_info' = s.doc
                /\ pc' = "build"
                /\ Done("fetch_stats")
                /\ UNCHANGED exc
    /\ UNCHANGED <<record, ret, ref, world, match_id_list, i, sink>>
    /\ ObjUnchanged

\* as Build, every TeamStat sharing one Statistic object (a default evaluated
\* once): the statistics of the match before show through
BuildShared ==
    /\ pc = "build"
    /\ LET r == MatchStatistic(match_info)
       IN  IF r.exc # NoExc
           THEN Abort(r.exc) /\ UNCHANGED <<record, trace>>
           ELSE /\ record' =
                     IF IsRecord(record)
                     THEN [r.val EXCEPT
                             !.team1.stats = [record.team1.stats EXCEPT !.ftg = r.val.team1.stats.ftg],
                             !.team2.stats = [record.team2.stats EXCEPT !.ftg = r.val.team2.stats.ftg]]
                     ELSE r.val
                /\ pc' = "extract"
                /\ Done("build")
                /\ UNCHANGED exc
    /\ UNCHANGED <<ret, ref, world, match_id_list, i, match_info, sink>>
    /\ ObjUnchanged

\* line 215: match_stats = MatchStatistic(match_info)
Build ==
    /\ pc = "build"
    /\ LET r == MatchStatistic(match_info)
       IN  IF r.exc # NoExc
           THEN Abort(r.exc) /\ UNCHANGED <<record, trace>>
           ELSE /\ record' = r.val
                /\ pc' = "extract"
                /\ Done("build")
                /\ UNCHANGED exc
    /\ UNCHANGED <<ret, ref, world, match_id_list, i, match_info, sink>>
    /\ ObjUnchanged

\* as Extract, the exception of get_stats caught and the match carried on
ExtractSwallow ==
    /\ pc = "extract"
    /\ LET r == get_stats(record, match_info)
       IN  /\ record' = r.self
           /\ pc' = "flatten"
           /\ Done("extract")
           /\ UNCHANGED exc
    /\ UNCHANGED <<ret, ref, world, match_id_list, i, match_info, sink>>
    /\ ObjUnchanged

\* line 216: match_stats.get_stats(match_info)
Extract ==
    /\ pc = "extract"
    /\ LET r == get_stats(record, match_info)
       IN  /\ record' = r.self
           /\ IF r.exc # NoExc
              THEN Abort(r.exc) /\ UNCHANGED trace
              ELSE /\ pc' = "flatten"
                   /\ Done("extract")
                   /\ UNCHANGED exc
    /\ UNCHANGED <<ret, ref, world, match_id_list, i, match_info, sink>>
    /\ ObjUnchanged

\* line 218, the argument: manipulate_stats(match_stats, ref)
Flatten ==
    /\ pc = "flatten"
    /\ ret' = manipulate_stats(record, ref)
    /\ pc' = "write"
    /\ Done("flatten")
    /\ UNCHANGED <<record, exc, ref, world, match_id_list, i, match_info, sink>>
    /\ ObjUnchanged

\* line 218, the call: writer.writerow(...)
Write ==
    /\ pc = "write"
    /\ sink' = Append(sink, ret)
    /\ pc' = "for"
    /\ Done("write")
    /\ UNCHANGED <<record, exc, ret, ref, world, match_id_list, i, match_info>>
    /\ ObjUnchanged

Next ==
    \/ Start
    \/ ForNext
    \/ FetchPage
    \/ FetchStats
    \/ Build
    \/ Extract
    \/ Flatten
    \/ Write

Spec == Init /\ [][Next]_vars

----------------------------------------------------------------------------
(* Properties of get_stats *)

\* the table of statistic codes: the field each code is mapped to
FieldOf(c) ==
    CASE c = "first_half_goals" -> "htg"
      [] c = "total_scoring_att" -> "sh"
      [] c = "ontarget_scoring_att" -> "sot"
      [] c = "total_corners_intobox" -> "co"
      [] c = "fk_foul_lost" -> "fo"
      [] c = "total_yel_card" -> "yc"
      [] c = "total_red_card" -> "rc"

\* the objects of the object interface hold the teams at positions 1 and 2
Key1 == TeamKeys[1]
Key2 == TeamKeys[2]

HasData(d) == "data" \in DOMAIN d
Present(d, k) == HasData(d) /\ k \in DOMAIN d["data"]
ListOf(d, k) == IF Present(d, k) THEN d["data"][k]["M"] ELSE <<>>

Occurs(M, c) == \E j \in 1..Len(M) : M[j]["name"] = c
LastValue(M, c) ==
    LET j == CHOOSE j \in 1..Len(M) :
                 /\ M[j]["name"] = c
                 /\ \A k \in (j + 1)..Len(M) : M[k]["name"] # c
    IN  M[j]["value"]

\* every field whose code occurs in M holds the value of the last entry with that code
LastWins(stats, M) ==
    \A c \in StatCodes : Occurs(M, c) => stats[FieldOf(c)] = LastValue(M, c)

\* every field whose code does not occur in M, and ftg, is as it was
Frame(before, after, M) ==
    /\ after.ftg = before.ftg
    /\ \A c \in StatCodes : ~Occurs(M, c) => after[FieldOf(c)] = before[FieldOf(c)]

\* C1: after get_stats, each mapped field whose code occurs in a team's entry
\* list equals the value of the last entry of the list with that code, wherever
\* the other entries sit (team1 once its list was read, team2 once the call
\* returned).
C1_LastOccurrenceWins ==
    (op = "get_stats" /\ HasData(data)) =>
        /\ Present(data, Key1) => LastWins(record.team1.stats, ListOf(data, Key1))
        /\ exc = NoExc => LastWins(record.team2.stats, ListOf(data, Key2))

\* a list carrying one code twice with different values has been applied
C1_Witness ==
    /\ op = "get_stats"
    /\ exc = NoExc
    /\ \E c \in StatCodes :
         /\ ListOf(data, Key2) = <<[name |-> c, value |-> 1], [name |-> c, value |-> 0]>>
         /\ record.team2.stats[FieldOf(c)] = 0

\* C2: the constructed object has team1/team2 from list positions 0 and 1,
\* ftg equal to the team's score and every other statistic 0; after any
\* sequence of get_stats calls ftg still equals the score.
C2_FulltimeGoalsFromScore ==
    IsRecord(record) =>
        LET t == fixture["entity"]["teams"]
            Team(x, e) ==
                /\ x.info = [id |-> e["team"]["id"], name |-> e["team"]["name"],
                             short_name |-> e["team"]["shortName"]]
                /\ x.stats.ftg = e["score"]
        IN  /\ Team(record.team1, t[1])
            /\ Team(record.team2, t[2])
            /\ op = "init" =>
                 /\ record.team1.stats = [Statistic EXCEPT !.ftg = t[1]["score"]]
                 /\ record.team2.stats = [Statistic EXCEPT !.ftg = t[2]["score"]]

\* statistics were written by two calls, the last with an unknown name, and ftg is the score
C2_Witness ==
    /\ op = "get_stats"
    /\ exc = NoExc
    /\ record.team1.stats.ftg = 2
    /\ record.team2.stats.ftg = 1
    /\ record.team1.stats.htg = 1
    /\ ListOf(data, Key1) = <<>>
    /\ \E j \in 1..Len(ListOf(data, Key2)) :
         ListOf(data, Key2)[j]["name"] \in OtherNames

\* C3: entries whose name is no table code change no field; a list without
\* any table code (the empty list too) leaves every field of the team at its
\* prior value, and get_stats returns when both teams have a list.
C3_UnknownCodesIgnored ==
    [][ (op' = "get_stats" /\ HasData(data')) =>
          /\ Frame(record.team1.stats, record'.team1.stats, ListOf(data', Key1))
          /\ Frame(record.team2.stats, record'.team2.stats, ListOf(data', Key2))
          /\ (Present(data', Key1) /\ Present(data', Key2)) => exc' = NoExc
      ]_vars

\* a list with only an unknown name was applied over a field set by an earlier call
C3_Witness ==
    /\ op = "get_stats"
    /\ exc = NoExc
    /\ Len(ListOf(data, Key1)) = 1
    /\ ListOf(data, Key1)[1]["name"] \in OtherNames
    /\ ListOf(data, Key2) = <<>>
    /\ record.team1.stats.sh = 1

\* C4: a second get_stats call with the document of a call that returned
\* leaves both teams' statistics as the first call left them.
C4_Idempotent ==
    [][ (again' /\ ~again /\ exc = NoExc) => (record' = record /\ exc' = NoExc) ]_vars

\* the same document, with entries for both teams, was applied twice
C4_Witness ==
    /\ again
    /\ exc = NoExc
    /\ Len(ListOf(data, Key1)) = 1
    /\ Len(ListOf(data, Key2)) = 1
    /\ record.team1.stats.co = 1
    /\ record.team2.stats.rc = 1

\* C5: when the stringified id of a team is no key of the mapping, get_stats
\* raises (KeyError on that id) and the team's fields keep their prior values;
\* when the id is a key with an empty list the team's fields keep their prior
\* values too, and the call returns if the other team has a list.
C5_MissingTeamRaises ==
    [][ (op' = "get_stats" /\ HasData(data')) =>
          /\ ~Present(data', Key1) =>
               /\ exc' = KeyError(Key1)
               /\ record'.team1.stats = record.team1.stats
          /\ ~Present(data', Key2) =>
               /\ exc'.type = "KeyError"
               /\ Present(data', Key1) => exc' = KeyError(Key2)
               /\ record'.team2.stats = record.team2.stats
          /\ (Present(data', Key1) /\ ListOf(data', Key1) = <<>>) =>
               record'.team1.stats = record.team1.stats
          /\ (Present(data', Key2) /\ ListOf(data', Key2) = <<>>) =>
               /\ record'.team2.stats = record.team2.stats
               /\ Present(data', Key1) => exc' = NoExc
      ]_vars

\* the second team's id was missing and its field from an earlier call is kept
C5_Witness ==
    /\ op = "get_stats"
    /\ exc = KeyError(Key2)
    /\ record.team2.stats.fo = 1

\* C10: with team1's id present and team2's absent the error is raised after
\* team1's fields were overwritten from team1's entries, team2 unchanged; with
\* team1's id absent it is raised before any field of either team changes.
C10_NotAtomic ==
    [][ (op' = "get_stats" /\ HasData(data')) =>
          /\ (Present(data', Key1) /\ ~Present(data', Key2)) =>
               /\ exc' = KeyError(Key2)
               /\ LastWins(record'.team1.stats, ListOf(data', Key1))
               /\ Frame(record.team1.stats, record'.team1.stats, ListOf(data', Key1))
               /\ record'.team2.stats = record.team2.stats
          /\ ~Present(data', Key1) =>
               /\ exc' = KeyError(Key1)
               /\ record' = record
      ]_vars

\* the call raised for team2 after it had written team1's field
C10_Witness ==
    /\ op = "get_stats"
    /\ exc = KeyError(Key2)
    /\ ListOf(data, Key1) = <<[name |-> "total_scoring_att", value |-> 1]>>
    /\ record.team1.stats.sh = 1
    /\ record.team2.stats = [Statistic EXCEPT !.ftg = 1]

\* the call raised for team1 although team2 had entries, and nothing changed
C10_WitnessFirstAbsent ==
    /\ op = "get_stats"
    /\ exc = KeyError(Key1)
    /\ Len(ListOf(data, Key2)) = 1

----------------------------------------------------------------------------
(* Properties of the constructor *)

\* the keys of the match context the record needs, attendance apart
ContextKeys ==
    { <<"gameweek", "id">>, <<"id">>, <<"gameweek", "compSeason", "label">>,
      <<"gameweek", "gameweek">>,
      <<"gameweek", "compSeason", "competition", "description">>,
      <<"kickoff", "label">>, <<"ground", "name">>, <<"ground", "city">> }

\* the context keys read before the kickoff label is parsed
KeysBeforeKickoff ==
    ContextKeys \ { <<"ground", "name">>, <<"ground", "city">> }

TeamEntryKeys ==
    { <<"team", "id">>, <<"team", "name">>, <<"team", "shortName">>, <<"score">> }

HasEntity(d) == "entity" \in DOMAIN d
HasTeams(d) == HasEntity(d) /\ "teams" \in DOMAIN d["entity"]
TeamCount(d) == IF HasTeams(d) THEN Len(d["entity"]["teams"]) ELSE 0

\* no required key is absent from the context or from the team entries 1..n
KeysPresent(d, n) ==
    /\ HasTeams(d)
    /\ \A q \in ContextKeys : HasPath(d["entity"], q)
    /\ \A p \in 1..n : p <= TeamCount(d) =>
         \A q \in TeamEntryKeys : HasPath(d["entity"]["teams"][p], q)

\* the kickoff label is there, is reached, and cannot be parsed
KickoffUnparsable(d) ==
    /\ HasEntity(d)
    /\ \A q \in KeysBeforeKickoff : HasPath(d["entity"], q)
    /\ ~Parsable(d["entity"]["kickoff"]["label"])

MissingFieldError(e) == e.type \in {"KeyError", "IndexError"}
FormatError(e) == e.type = "ValueError"

\* C6 as stated: the constructor fails with a MissingFieldError whenever the
\* team list has not exactly two entries or a required key is absent, and
\* yields a record only for exactly two entries; an absent attendance is no
\* failure.  (Documents whose kickoff label is reached and cannot be parsed
\* are left aside: they fail with the FormatError.)
C6_ExactlyTwoTeams ==
    (op = "init" /\ ~KickoffUnparsable(fixture)) =>
        /\ (TeamCount(fixture) # 2 \/ ~KeysPresent(fixture, TeamCount(fixture)))
              => MissingFieldError(exc)
        /\ exc = NoExc => TeamCount(fixture) = 2
        /\ (exc = NoExc /\ "attendance" \notin DOMAIN fixture["entity"])
              => record.match.attendance = 0

\* C6 amended: the constructor fails whenever the team list has fewer than two
\* entries or a required key of the context or of the first two team entries
\* is absent: with a FormatError when the kickoff label is reached and cannot
\* be parsed, with a MissingFieldError otherwise.  A list of two or more
\* entries with those keys and a parsable label yields a record built from the
\* first two entries; further entries are not read.  An absent attendance is
\* no failure: attendance is 0.
C6_AtLeastTwoTeams ==
    op = "init" =>
        /\ (TeamCount(fixture) < 2 \/ ~KeysPresent(fixture, 2)) =>
              IF KickoffUnparsable(fixture) THEN FormatError(exc)
              ELSE MissingFieldError(exc)
        /\ (TeamCount(fixture) >= 2 /\ KeysPresent(fixture, 2)) =>
              IF KickoffUnparsable(fixture) THEN FormatError(exc)
              ELSE /\ exc = NoExc
                   /\ record.team1.info.id = fixture["entity"]["teams"][1]["team"]["id"]
                   /\ record.team2.info.id = fixture["entity"]["teams"][2]["team"]["id"]
                   /\ record.match.attendance =
                        IF "attendance" \in DOMAIN fixture["entity"]
                        THEN fixture["entity"]["attendance"] ELSE 0

\* a record was built from a list of three entries, the third without its
\* score, and from a document without attendance
C6_Witness ==
    /\ op = "init"
    /\ exc = NoExc
    /\ TeamCount(fixture) = 3
    /\ "score" \notin DOMAIN fixture["entity"]["teams"][3]
    /\ "attendance" \notin DOMAIN fixture["entity"]
    /\ record.match.attendance = 0
    /\ record.team2.info.short_name = ShortNames[2]

----------------------------------------------------------------------------
(* Properties of manipulate_stats *)

\* the value a header column stands for
ColumnValue(d, r, col) ==
    CASE col = "Season" -> d.match.season
      [] col = "Date" -> d.match.kickoff
      [] col = "HomeTeam" -> d.team1.info.short_name
      [] col = "AwayTeam" -> d.team2.info.short_name
      [] col = "FTHG" -> d.team1.stats.ftg
      [] col = "FTAG" -> d.team2.stats.ftg
      [] col = "HTHG" -> d.team1.stats.htg
      [] col = "HTAG" -> d.team2.stats.htg
      [] col = "Referee" -> r
      [] col = "HS" -> d.team1.stats.sh
      [] col = "AS" -> d.team2.stats.sh
      [] col = "HST" -> d.team1.stats.sot
      [] col = "AST" -> d.team2.stats.sot
      [] col = "HC" -> d.team1.stats.co
      [] col = "AC" -> d.team2.stats.co
      [] col = "HF" -> d.team1.stats.fo
      [] col = "AF" -> d.team2.stats.fo
      [] col = "HY" -> d.team1.stats.yc
      [] col = "AY" -> d.team2.stats.yc
      [] col = "HR" -> d.team1.stats.rc
      [] col = "AR" -> d.team2.stats.rc

\* the order of the row: the four leading columns, the two goal pairs, the
\* referee, then the pairs of the six remaining statistics
PairOrder == <<"sh", "sot", "co", "fo", "yc", "rc">>

\* C7: manipulate_stats returns a row of exactly 21 values in the fixed order,
\* matching the 21-column header position by position, and changes no field
\* of the record.
C7_RowOfTwentyOne ==
    [][ op' = "manipulate_stats" =>
          /\ record' = record
          /\ Len(ret') = 21
          /\ Len(fields) = 21
          /\ \A j \in 1..21 : ret'[j] = ColumnValue(record, ref', fields[j])
          /\ SubSeq(ret', 1, 4) = <<record.match.season, record.match.kickoff,
                                    record.team1.info.short_name,
                                    record.team2.info.short_name>>
          /\ SubSeq(ret', 5, 8) = <<record.team1.stats.ftg, record.team2.stats.ftg,
                                    record.team1.stats.htg, record.team2.stats.htg>>
          /\ ret'[9] = ref'
          /\ \A k \in 1..6 :
               /\ ret'[8 + 2 * k] = record.team1.stats[PairOrder[k]]
               /\ ret'[9 + 2 * k] = record.team2.stats[PairOrder[k]]
      ]_vars

\* a row was returned for a record whose teams differ in goals, shots and cards
C7_Witness ==
    /\ op = "manipulate_stats"
    /\ ret[9] = "A. Taylor"
    /\ ret[3] = "ARS"
    /\ ret[5] # ret[6]
    /\ ret[10] = 1
    /\ ret[11] = 0
    /\ ret[18] = 0
    /\ ret[19] = 1

----------------------------------------------------------------------------
(* Properties of main *)

Rank(step) ==
    CASE step = "fetch_page" -> 1
      [] step = "fetch_stats" -> 2
      [] step = "build" -> 3
      [] step = "extract" -> 4
      [] step = "flatten" -> 5
      [] step = "write" -> 6

\* the key under which a statistics document holds the team with this id
KeyOfId(id) == TeamKeys[CHOOSE p \in 1..Len(TeamIds) : TeamIds[p] = id]

\* the row of a match, from the documents served for it alone
ExpectedRow(s) ==
    manipulate_stats(get_stats(MatchStatistic(s.doc).val, s.doc).self,
                     Last(Last(s.infos)))

\* a step of the match fails, judged on the documents served for it
Fails(s) ==
    \/ ~s.page_ok
    \/ s.infos = <<>>
    \/ ~s.stats_ok
    \/ TeamCount(s.doc) < 2
    \/ ~KeysPresent(s.doc, 2)
    \/ KickoffUnparsable(s.doc)
    \/ \E p \in 1..2 : ~Present(s.doc, KeyOfId(s.doc["entity"]["teams"][p]["team"]["id"]))

Completed(k) == \E j \in 1..Len(trace) : trace[j] = <<k, "write">>
NumCompleted == Cardinality({ k \in 1..Len(match_id_list) : Completed(k) })
ServedFor(k) == world.matches[match_id_list[k]]

\* C8: the steps fetch, build, extract, flatten, write-row of a match occur in
\* that order and all complete before a step of the next match; the sink holds
\* the header and one row per completed match, in fixture-list order, each row
\* computed from that match's own documents.
C8_Sequential ==
    /\ \A j \in 1..Len(trace) :
         IF j = 1 THEN trace[j] = <<1, "fetch_page">>
         ELSE \/ /\ trace[j][1] = trace[j - 1][1]
                 /\ Rank(trace[j][2]) = Rank(trace[j - 1][2]) + 1
              \/ /\ trace[j][1] = trace[j - 1][1] + 1
                 /\ trace[j - 1][2] = "write"
                 /\ trace[j][2] = "fetch_page"
    /\ sink = <<>> => trace = <<>>
    /\ sink # <<>> =>
         /\ sink[1] = fields
         /\ Len(sink) = 1 + NumCompleted
         /\ \A k \in 1..NumCompleted :
              /\ Completed(k)
              /\ sink[k + 1] = ExpectedRow(ServedFor(k))

\* two matches were written, the second with no entry where the first had one
C8_Witness ==
    /\ pc = "done"
    /\ Len(sink) = 3
    /\ sink[2][3] = "ARS"
    /\ sink[2][10] = 10
    /\ sink[3][3] = "EVE"
    /\ sink[3][10] = 0
    /\ sink[3][8] = 3

\* C9: the first failure in a step (fetch, build, extract) of match k aborts
\* the run: no row is written for k, no match after k is fetched or processed,
\* and the sink keeps the header and the rows of the matches before k.
C9_FirstFailureAborts ==
    /\ \A k \in 1..Len(match_id_list) :
         Fails(ServedFor(k)) =>
            /\ pc # "done"
            /\ Len(sink) <= k
            /\ \A j \in 1..Len(trace) :
                 /\ trace[j][1] <= k
                 /\ trace[j][1] = k => trace[j][2] \notin {"flatten", "write"}
    /\ (pc = "aborted" /\ i >= 1) =>
         /\ Fails(ServedFor(i))
         /\ exc # NoExc
         /\ Len(sink) = i
         /\ sink[1] = fields
         /\ \A k \in 1..(i - 1) : sink[k + 1] = ExpectedRow(ServedFor(k))
         /\ ~ENABLED Next

\* get_stats raised in the second match, after the first was written
C9_Witness ==
    /\ pc = "aborted"
    /\ i = 2
    /\ Len(match_id_list) = 2
    /\ exc = KeyError(Key2)
    /\ Len(sink) = 2
    /\ sink[2][3] = "EVE"

====
